---- MODULE Spec2Model ----
(***************************************************************************)
(* A model of the video assembly pipeline of video_renderer.py and of the  *)
(* segment timeline of subtitle_processor.py, with the methods of          *)
(* storyboard_processor.py and add_audio_and_music of                      *)
(* add_audio_to_videos.py followed call by call.                           *)
(*                                                                         *)
(* Time.  Python computes times as floats; the model computes them as      *)
(* exact rationals, kept as whole numbers of ticks.  One second is         *)
(* TicksPerSec ticks, chosen so that a scene duration (a multiple of half  *)
(* a second) divided by a number of chunks is a whole number of ticks.     *)
(* A frame timestamp j / fps is never rounded: comparisons with it are     *)
(* cross-multiplied.                                                       *)
(***************************************************************************)
EXTENDS Integers, Sequences, FiniteSets, TLC

(* ------------------------------ bounds -------------------------------- *)
\* captions of a shot
MaxScenes == 2
\* chunks split_into_chunks yields for one caption (0: nothing is left of it)
MaxChunks == 2
\* the high frame rate of config['video_settings']['fps'] (the low one is 1)
MaxFps == 8
\* length of the background music file, in half seconds
MaxMusic == 3
\* cpu_count() of the machine
MaxCpu == 1
\* total_frames and cpu_count() when only the batches are built
MaxBatchFrames == 130
MaxBatchCpu == 9
\* threads calling get_cached_image, and scene images they ask for
MaxThreads == 2
MaxImages == 1
\* font paths and font sizes get_cached_font is asked for
MaxFonts == 2
MaxFontSizes == 2
\* target widths and heights apply_ken_burns_effect is called with
MaxSize == 12
\* progress values are the multiples of 1 / ProgressSteps from one step below
\* 0 to two steps above 1
ProgressSteps == 4
\* scene numbers whose effect is looked up
MaxSceneNumber == 16
\* entries of SubtitleRenderer.timing_info, and the largest time in them
MaxSegments == 2
MaxTime == 2
\* words of a text given to split_into_chunks, characters of a word, and the
\* largest max_chars_per_chunk
MaxWords == 3
MaxWordLen == 3
MaxChars == 2
\* seconds of a clip or of an audio file given to add_audio_and_music
MaxClip == 3

(* ------------------------- program constants -------------------------- *)
\* scene_duration = 3.0 when the voice file is missing or unreadable
DefaultSceneSeconds == 3
\* batch_size = max(30, ...)
MinBatchSize == 30
\* max_workers = min(cpu_count, 8)
WorkerCap == 8
\* width = 1440, height = 1920
Width == 1440
Height == 1920
\* total_frames // (max_workers * 4)
BatchesPerWorker == 4
\* scene_end_time = scene_start_time + 3.0 when no segment was found
DefaultWindowSeconds == 3

(* ------------------------------ helpers ------------------------------- *)
RECURSIVE Fact(_)
Fact(n) == IF n <= 1 THEN 1 ELSE n * Fact(n - 1)

HalfSec == Fact(MaxChunks)
TicksPerSec == 2 * HalfSec

Min(a, b) == IF a <= b THEN a ELSE b
Max(a, b) == IF a >= b THEN a ELSE b

\* int(x) and ceil(x) of the non-negative rational x = num / den
FloorDiv(num, den) == num \div den
CeilDiv(num, den) == (num + den - 1) \div den

RECURSIVE SeqSum(_)
SeqSum(s) == IF s = <<>> THEN 0 ELSE Head(s) + SeqSum(Tail(s))

SetMin(S) == CHOOSE x \in S : \A y \in S : x <= y
SetMax(S) == CHOOSE x \in S : \A y \in S : x >= y

Range(f) == {f[x] : x \in DOMAIN f}

(* ------------------------------- inputs ------------------------------- *)
\* The voice file of a scene: missing (or unreadable), or readable with a
\* length in half seconds.  A file of length 0 is a readable file without
\* samples.
AudioLengths == {0, 1}
AudioFiles == {[exists |-> FALSE, halves |-> 0]}
              \cup {[exists |-> TRUE, halves |-> h] : h \in AudioLengths}

\* A caption as the timeline sees it: the number of chunks its text splits
\* into, and its voice file.
Captions == [chunks : 0..MaxChunks, audio : AudioFiles]

CaptionLists == UNION {[1..n -> Captions] : n \in 0..MaxScenes}

FpsValues == {1, MaxFps}

\* assets/pianai.mp3: missing, or its length in half seconds
MusicFiles == {[exists |-> FALSE, halves |-> 0]}
              \cup {[exists |-> TRUE, halves |-> h] : h \in 1..MaxMusic}

VARIABLES
    pc,                  \* where create_complete_video stands
    captions,            \* load_captions(shot), with the voice files
    fps,                 \* config['video_settings']['fps']
    cpu_count,           \* multiprocessing.cpu_count()
    all_segments,        \* the segment timeline
    total_duration,      \* in ticks
    total_frames,
    image_cache,         \* scene number (the key of the path) -> buffer
    frame_batches,       \* the batches, each the list of its frame indices
    futures,             \* render future of each batch: pending, ok, raised
    collected,           \* batches whose future the main thread has consumed
    all_rendered_frames, \* frame index -> frame
    frame_writes,        \* frame index -> assignments made to its entry
    scene_durations,     \* scene -> the largest end_time of its segments
    audio_tasks,         \* the tasks of load_audio_clips_concurrent
    voice_futures,       \* load future of each task
    voice_collected,     \* tasks whose future the main thread has consumed
    voice_clips,         \* the clips loaded, in completion order
    bg_music,            \* what process_background_music returned
    error,               \* what ended the run, if anything
    output,              \* the file write_videofile produced, if any
    readable,            \* scene number -> cv2.imread can decode the file
    heap,                \* buffer -> its pixels
    decodes,             \* scene number -> cv2.imread calls made for it
    tpc,                 \* thread -> where it stands in get_cached_image
    tkey,                \* thread -> the scene number it asked for
    timg,                \* thread -> the buffer it was handed
    warnings,            \* scene number -> image warnings printed for it
    font_files,          \* the font paths ImageFont.truetype can load
    font_cache,          \* (font_path, font_size) -> font object
    font_loads,          \* (font_path, font_size) -> font objects made
    font_returned,       \* the last get_cached_font call and what it returned
    font_warnings,       \* (font_path, font_size) -> font warnings printed
    effect_call,         \* the arguments of one apply_ken_burns_effect call
    effect_result,       \* what that call computed and returned
    timing_info,         \* SubtitleRenderer.timing_info
    current_time,        \* the argument of get_subtitle_at_time
    subtitle_text,       \* what get_subtitle_at_time returned
    split_call,          \* the arguments of one split_into_chunks call
    split_result,        \* the chunks that call returned
    processor,           \* the StoryboardProcessor: generate_audio, tts
    storylines,          \* the scene numbers of the storylines of the shot
    audio_files,         \* scene numbers whose voice file exists on disk
    ensure_result,       \* how _ensure_audio_files_exist ended
    enhance_call,        \* one enhance_flux_prompts_batch call and the LLM's answer
    enhance_result,      \* how that call ended
    mux_call,            \* the arguments of one add_audio_and_music call
    mux_result           \* the clip that call returned

inputVars == <<captions, fps, cpu_count>>
timelineVars == <<all_segments, total_duration, total_frames>>
renderVars == <<frame_batches, futures, collected, all_rendered_frames,
                frame_writes>>
audioVars == <<scene_durations, audio_tasks, voice_futures, voice_collected,
               voice_clips, bg_music>>

threadVars == <<readable, heap, decodes, tpc, tkey, timg, warnings>>

fontVars == <<font_files, font_cache, font_loads, font_returned,
              font_warnings>>
effectVars == <<effect_call, effect_result>>
subtitleVars == <<timing_info, current_time, subtitle_text>>

processorVars == <<split_call, split_result, processor, storylines,
                   audio_files, ensure_result, enhance_call, enhance_result>>

muxVars == <<mux_call, mux_result>>

\* the state of the calls that are followed on their own
callVars == <<fontVars, effectVars, subtitleVars, processorVars, muxVars>>

vars == <<pc, inputVars, timelineVars, image_cache, renderVars, audioVars,
          error, output, threadVars, callVars>>

(* ------------------- subtitle_processor.py: timeline ------------------ *)
\* scene_duration of one caption, in ticks
SceneDuration(c) ==
    IF c.audio.exists THEN c.audio.halves * HalfSec
    ELSE DefaultSceneSeconds * TicksPerSec

\* a loop that never advances current_start_time
SceneStartTimeReset(caps, i) == 0

\* current_start_time when the loop reaches caption i
SceneStartTime(caps, i) ==
    SeqSum([k \in 1..(i - 1) |-> SceneDuration(caps[k])])

\* the segments the inner loop appends for caption i
SceneSegments(caps, i) ==
    LET n == caps[i].chunks
        chunk_duration == IF n > 0 THEN SceneDuration(caps[i]) \div n
                          ELSE SceneDuration(caps[i])
        start == SceneStartTime(caps, i)
    IN  [j \in 1..n |->
            [scene      |-> i,
             chunk      |-> j,
             start_time |-> start + (j - 1) * chunk_duration,
             end_time   |-> start + j * chunk_duration,
             duration   |-> chunk_duration]]

RECURSIVE SegmentsUpTo(_, _)
SegmentsUpTo(caps, i) ==
    IF i = 0 THEN <<>>
    ELSE SegmentsUpTo(caps, i - 1) \o SceneSegments(caps, i)

generate_complete_rst_file(caps) == SegmentsUpTo(caps, Len(caps))

(* ------------- subtitle_processor.py: the RST file and its reader ----- *)
\* the text of chunk j of caption i; the chunks of the captions are taken to
\* be different texts
ChunkText(i, j) == ToString(i) \o "." \o ToString(j)

\* float(f"{x:.2f}") for a time x given in ticks: the nearest number of
\* hundredths of a second (no time of the model lies half-way between two)
Hundredths(ticks) == (200 * ticks + TicksPerSec) \div (2 * TicksPerSec)

\* generate_complete_rst_content writes one subtitle block for each segment,
\* the times with two decimals, and parse_rst_file reads the blocks back
\* into timing_info, in the order of the file; times in hundredths
parse_rst_file(segs) ==
    [i \in 1..Len(segs) |->
        [text       |-> ChunkText(segs[i].scene, segs[i].chunk),
         start_time |-> Hundredths(segs[i].start_time),
         end_time   |-> Hundredths(segs[i].end_time)]]

\* a lookup that leaves the end of a segment out
RECURSIVE SubtitleHalfOpen(_, _)
SubtitleHalfOpen(info, t) ==
    IF info = <<>> THEN ""
    ELSE IF Head(info).start_time <= t /\ t < Head(info).end_time
         THEN Head(info).text
         ELSE SubtitleHalfOpen(Tail(info), t)

\* for info in self.timing_info: if info['start_time'] <= current_time <=
\* info['end_time']: return info['text']; return ""
RECURSIVE get_subtitle_at_time(_, _)
get_subtitle_at_time(info, t) ==
    IF info = <<>> THEN ""
    ELSE IF Head(info).start_time <= t /\ t <= Head(info).end_time
         THEN Head(info).text
         ELSE get_subtitle_at_time(Tail(info), t)

\* complete_rst_renderer.get_subtitle_at_time(current_time) for frame j,
\* current_time = j / rate: both sides of the comparisons in hundredths
\* times rate
SubtitleOfFrame(segs, j, rate) ==
    get_subtitle_at_time(
        [i \in 1..Len(segs) |->
            [text       |-> parse_rst_file(segs)[i].text,
             start_time |-> parse_rst_file(segs)[i].start_time * rate,
             end_time   |-> parse_rst_file(segs)[i].end_time * rate]],
        100 * j)

(* ------------------ video_renderer.py: frame rendering ---------------- *)
BlackFrame == [kind |-> "black", scene |-> 0]

\* Frame j has timestamp j / fps seconds; seg contains it when
\* seg.start_time <= j / fps < seg.end_time.
SegmentContainsFrame(seg, j, rate) ==
    /\ seg.start_time * rate <= j * TicksPerSec
    /\ j * TicksPerSec < seg.end_time * rate

\* the scene number render_frame_batch finds for frame j (1 when no segment
\* contains the timestamp)
FrameScene(segs, j, rate) ==
    LET hits == {i \in 1..Len(segs) : SegmentContainsFrame(segs[i], j, rate)}
    IN  IF hits = {} THEN 1 ELSE segs[SetMin(hits)].scene

\* the window of the hit segment alone
SceneWindowOfSegment(segs, j, rate) ==
    LET hits == {i \in 1..Len(segs) : SegmentContainsFrame(segs[i], j, rate)}
    IN  IF hits = {} THEN [start |-> 0, end |-> 0]
        ELSE [start |-> segs[SetMin(hits)].start_time,
              end   |-> segs[SetMin(hits)].end_time]

\* scene_start_time and scene_end_time after the search loop: both 0 when no
\* segment contains the timestamp, else the smallest start and the largest
\* end of the segments of the scene found
SceneWindow(segs, j, rate) ==
    LET hits == {i \in 1..Len(segs) : SegmentContainsFrame(segs[i], j, rate)}
        scene_segments ==
            {i \in 1..Len(segs) : segs[i].scene = FrameScene(segs, j, rate)}
    IN  IF hits = {} THEN [start |-> 0, end |-> 0]
        ELSE [start |-> SetMin({segs[i].start_time : i \in scene_segments}),
              end   |-> SetMax({segs[i].end_time : i \in scene_segments})]

\* keeping a scene_end_time of 0
SceneEndTimeKept(window) == window.end

\* if scene_end_time == 0: scene_end_time = scene_start_time + 3.0
SceneEndTime(window) ==
    IF window.end = 0 THEN window.start + DefaultWindowSeconds * TicksPerSec
    ELSE window.end

\* scene_duration, in ticks: 1.0 when the window is empty or reversed
WindowDuration(window) ==
    IF SceneEndTime(window) - window.start <= 0 THEN TicksPerSec
    ELSE SceneEndTime(window) - window.start

\* scene_progress = max(0, min(1, (current_time - scene_start_time) /
\* scene_duration)) for frame j, as the fraction num / den
SceneProgress(segs, j, rate) ==
    LET window == SceneWindow(segs, j, rate)
        den == WindowDuration(window) * rate
        num == j * TicksPerSec - window.start * rate
    IN  [num |-> Max(0, Min(den, num)), den |-> den]

RenderFrame(segs, j, rate) ==
    [kind |-> "rendered", scene |-> FrameScene(segs, j, rate),
     progress |-> SceneProgress(segs, j, rate),
     subtitle |-> SubtitleOfFrame(segs, j, rate)]

\* int(total_duration * fps)
TotalFrames(duration, rate) == FloorDiv(duration * rate, TicksPerSec)

MaxWorkers(cpus) == Min(cpus, WorkerCap)

BatchSize(frames, workers) ==
    Max(MinBatchSize, frames \div (workers * BatchesPerWorker))

\* batch_info = [(j, j / fps) for j in range(i, batch_end)]: the frame indices
\* of one batch in order (the timestamp j / fps is derived from j)
BatchInfo(i, batch_end) == [k \in 1..(batch_end - i) |-> i + k - 1]

\* for i in range(0, total_frames, batch_size), from index i on
RECURSIVE BatchesFrom(_, _, _)
BatchesFrom(i, frames, size) ==
    IF i >= frames THEN <<>>
    ELSE <<BatchInfo(i, Min(i + size, frames))>>
         \o BatchesFrom(i + size, frames, size)

\* the loop that stops one frame early
FrameBatchesShort(frames, workers) ==
    BatchesFrom(0, frames - 1, BatchSize(frames, workers))

FrameBatches(frames, workers) ==
    BatchesFrom(0, frames, BatchSize(frames, workers))

BatchFrames(batch) == Range(batch)

\* a buffer object is named by the key it was decoded for and by who decoded
\* it (0: a preload worker; b: the worker that rendered batch b)
Decoded(key, by) == <<"decoded", key, by>>

\* image_cache after a worker asked for the scenes in wanted: a scene not yet
\* cached is decoded and stored
CacheAfter(cache, wanted, by) ==
    [k \in (DOMAIN cache) \cup wanted |->
        IF k \in DOMAIN cache THEN cache[k] ELSE Decoded(k, by)]

\* make_frame(t) for t = num / den seconds
make_frame(num, den) ==
    LET frame_idx == FloorDiv(num * fps, den)
    IN  IF frame_idx \in DOMAIN all_rendered_frames
        THEN all_rendered_frames[frame_idx]
        ELSE BlackFrame

(* --------------------- create_complete_video: steps ------------------- *)
NoOutput == [written |-> FALSE]
NoMusic == [present |-> FALSE]

\* nothing of the pipeline has run yet
PipelineAtLoad ==
    /\ pc = "load"
    /\ all_segments = <<>>
    /\ total_duration = 0
    /\ total_frames = 0
    /\ frame_batches = <<>>
    /\ futures = <<>>
    /\ collected = {}
    /\ all_rendered_frames = <<>>
    /\ frame_writes = <<>>
    /\ scene_durations = <<>>
    /\ audio_tasks = <<>>
    /\ voice_futures = <<>>
    /\ voice_collected = {}
    /\ voice_clips = <<>>
    /\ bg_music = NoMusic
    /\ error = "none"
    /\ output = NoOutput

\* the calls of get_cached_image are not followed one by one
ThreadsNotFollowed ==
    /\ readable = <<>>
    /\ heap = <<>>
    /\ decodes = <<>>
    /\ tpc = <<>>
    /\ tkey = <<>>
    /\ timg = <<>>
    /\ warnings = <<>>

NoCall == [called |-> FALSE]
NoResult == [returned |-> FALSE]

\* no font is asked for
FontsNotFollowed ==
    /\ font_files = {}
    /\ font_cache = <<>>
    /\ font_loads = <<>>
    /\ font_returned = NoCall
    /\ font_warnings = <<>>

\* no effect is applied on its own
EffectsNotFollowed ==
    /\ effect_call = NoCall
    /\ effect_result = NoResult

\* no subtitle is looked up on its own
SubtitlesNotFollowed ==
    /\ timing_info = <<>>
    /\ current_time = 0
    /\ subtitle_text = NoResult

\* no method of the processors is followed on its own
ProcessorsNotFollowed ==
    /\ split_call = NoCall
    /\ split_result = NoResult
    /\ processor = [constructed |-> FALSE]
    /\ storylines = <<>>
    /\ audio_files = {}
    /\ ensure_result = NoResult
    /\ enhance_call = NoCall
    /\ enhance_result = NoResult

\* add_audio_and_music is not followed
MuxNotFollowed ==
    /\ mux_call = NoCall
    /\ mux_result = NoResult

Init ==
    /\ captions \in CaptionLists
    /\ fps \in FpsValues
    /\ cpu_count \in 1..MaxCpu
    /\ PipelineAtLoad
    /\ image_cache = <<>>
    /\ ThreadsNotFollowed
    /\ ProcessorsNotFollowed
    /\ MuxNotFollowed
    /\ FontsNotFollowed
    /\ EffectsNotFollowed
    /\ SubtitlesNotFollowed

\* if not captions: print the error and return
LoadCaptionsEmpty ==
    /\ pc = "load"
    /\ captions = <<>>
    /\ pc' = "returned"
    /\ error' = "no captions"
    /\ UNCHANGED <<inputVars, timelineVars, image_cache, renderVars,
                   audioVars, output>>
    /\ UNCHANGED <<threadVars, callVars>>

\* the timeline, the total duration and the total frame count
GenerateTimeline ==
    /\ pc = "load"
    /\ captions # <<>>
    /\ LET segs == generate_complete_rst_file(captions)
           dur == IF segs # <<>>
                  THEN SetMax({segs[i].end_time : i \in 1..Len(segs)})
                  ELSE 0
       IN  /\ all_segments' = segs
           /\ total_duration' = dur
           /\ total_frames' = TotalFrames(dur, fps)
    /\ pc' = "preload"
    /\ UNCHANGED <<inputVars, image_cache, renderVars, audioVars, error,
                   output>>
    /\ UNCHANGED <<threadVars, callVars>>

SceneCount == Cardinality({all_segments[i].scene : i \in 1..Len(all_segments)})

\* preload_images: ThreadPoolExecutor(max_workers=min(16, scene_count))
\* raises ValueError when scene_count is 0, and nothing catches it
PreloadImages ==
    /\ pc = "preload"
    /\ IF SceneCount = 0
       THEN /\ pc' = "aborted"
            /\ error' = "ValueError"
            /\ UNCHANGED image_cache
       ELSE /\ pc' = "batches"
            /\ image_cache' = [k \in 1..SceneCount |-> Decoded(k, 0)]
            /\ UNCHANGED error
    /\ UNCHANGED <<inputVars, timelineVars, renderVars, audioVars, output>>
    /\ UNCHANGED <<threadVars, callVars>>

\* the batches are built and every batch is submitted to the pool
PrepareBatches ==
    /\ pc = "batches"
    /\ frame_batches' = FrameBatches(total_frames, MaxWorkers(cpu_count))
    /\ futures' = [b \in 1..Len(frame_batches') |-> "pending"]
    /\ collected' = {}
    /\ all_rendered_frames' = <<>>
    /\ frame_writes' = <<>>
    /\ pc' = "render"
    /\ UNCHANGED <<inputVars, timelineVars, image_cache, audioVars, error,
                   output>>
    /\ UNCHANGED <<threadVars, callVars>>

\* the scenes whose image the first n frames of a batch ask the cache for
BatchScenes(batch, n) ==
    {FrameScene(all_segments, batch[k], fps) : k \in 1..n}

\* a worker runs render_frame_batch on batch b and returns its frames
RenderBatchOk(b) ==
    /\ pc = "render"
    /\ futures[b] = "pending"
    /\ futures' = [futures EXCEPT ![b] = "ok"]
    /\ image_cache' = CacheAfter(image_cache,
                                 BatchScenes(frame_batches[b],
                                             Len(frame_batches[b])), b)
    /\ UNCHANGED <<pc, inputVars, timelineVars, frame_batches, collected,
                   all_rendered_frames, frame_writes, audioVars, error,
                   output>>
    /\ UNCHANGED <<threadVars, callVars>>

\* a worker runs render_frame_batch on batch b, which raises after the
\* images of its first n frames were asked for
RenderBatchRaises(b) ==
    /\ pc = "render"
    /\ futures[b] = "pending"
    /\ futures' = [futures EXCEPT ![b] = "raised"]
    /\ \E n \in 0..Len(frame_batches[b]) :
           image_cache' = CacheAfter(image_cache,
                                     BatchScenes(frame_batches[b], n), b)
    /\ UNCHANGED <<pc, inputVars, timelineVars, frame_batches, collected,
                   all_rendered_frames, frame_writes, audioVars, error,
                   output>>
    /\ UNCHANGED <<threadVars, callVars>>

\* as_completed hands a finished future to the main thread: the frames of a
\* batch that returned are stored, a batch that raised is only reported
CollectBatch(b) ==
    /\ pc = "render"
    /\ futures[b] # "pending"
    /\ b \notin collected
    /\ collected' = collected \cup {b}
    /\ all_rendered_frames' =
          IF futures[b] = "ok"
          THEN [j \in (DOMAIN all_rendered_frames) \cup BatchFrames(frame_batches[b]) |->
                   IF j \in BatchFrames(frame_batches[b])
                   THEN RenderFrame(all_segments, j, fps)
                   ELSE all_rendered_frames[j]]
          ELSE all_rendered_frames
    /\ frame_writes' =
          IF futures[b] = "ok"
          THEN [j \in (DOMAIN frame_writes) \cup BatchFrames(frame_batches[b]) |->
                   (IF j \in DOMAIN frame_writes THEN frame_writes[j] ELSE 0)
                   + Cardinality({k \in DOMAIN frame_batches[b] :
                                     frame_batches[b][k] = j})]
          ELSE frame_writes
    /\ UNCHANGED <<pc, inputVars, timelineVars, image_cache, frame_batches,
                   futures, audioVars, error, output>>
    /\ UNCHANGED <<threadVars, callVars>>

\* the executor block ends once every future was consumed; the clip is made
CreateVideoClip ==
    /\ pc = "render"
    /\ collected = DOMAIN futures
    /\ pc' = "audio"
    /\ UNCHANGED <<inputVars, timelineVars, image_cache, renderVars,
                   audioVars, error, output>>
    /\ UNCHANGED <<threadVars, callVars>>

(* ------------------------ audio: voice clips -------------------------- *)
\* scene_durations[scene] = max end_time of the segments of the scene
SceneDurations(segs) ==
    [sc \in {segs[i].scene : i \in 1..Len(segs)} |->
        SetMax({segs[i].end_time : i \in {k \in 1..Len(segs) : segs[k].scene = sc}})]

\* sorted(scene_durations.keys())
RECURSIVE SortedSeq(_)
SortedSeq(S) ==
    IF S = {} THEN <<>> ELSE <<SetMin(S)>> \o SortedSeq(S \ {SetMin(S)})

\* current_time when the loop of load_audio_clips_concurrent reaches the k-th
\* scene of the sorted keys: 0 at first, then scene_durations[previous scene]
TaskStartTime(durations, scenes, k) ==
    IF k = 1 THEN 0 ELSE durations[scenes[k - 1]]

AudioTasks(durations) ==
    LET scenes == SortedSeq(DOMAIN durations)
    IN  [k \in 1..Len(scenes) |->
            [scene |-> scenes[k],
             start_time |-> TaskStartTime(durations, scenes, k)]]

\* opening the file without looking whether it is there
load_single_audio_unguarded(task) ==
    [loaded |-> TRUE, scene |-> task.scene, start |-> task.start_time,
     duration |-> captions[task.scene].audio.halves * HalfSec]

\* load_single_audio: the clip placed at start_time, or nothing when the file
\* is missing or AudioFileClip raises
load_single_audio(task) ==
    IF captions[task.scene].audio.exists
    THEN [loaded |-> TRUE, scene |-> task.scene, start |-> task.start_time,
          duration |-> captions[task.scene].audio.halves * HalfSec]
    ELSE [loaded |-> FALSE]

\* scene_durations is computed and the tasks are submitted
\* (ThreadPoolExecutor(max_workers=min(8, len(audio_tasks))) raises ValueError
\* when there is no task)
PrepareAudio ==
    /\ pc = "audio"
    /\ scene_durations' = SceneDurations(all_segments)
    /\ audio_tasks' = AudioTasks(scene_durations')
    /\ voice_futures' = [k \in 1..Len(audio_tasks') |-> [state |-> "pending"]]
    /\ voice_collected' = {}
    /\ voice_clips' = <<>>
    /\ IF Len(audio_tasks') = 0
       THEN pc' = "aborted" /\ error' = "ValueError"
       ELSE pc' = "voices" /\ UNCHANGED error
    /\ UNCHANGED <<inputVars, timelineVars, image_cache, renderVars, bg_music,
                   output>>
    /\ UNCHANGED <<threadVars, callVars>>

\* a worker runs load_single_audio on task k
LoadSingleAudio(k) ==
    /\ pc = "voices"
    /\ voice_futures[k].state = "pending"
    /\ voice_futures' = [voice_futures EXCEPT
                            ![k] = [state |-> "done",
                                    result |-> load_single_audio(audio_tasks[k])]]
    /\ UNCHANGED <<pc, inputVars, timelineVars, image_cache, renderVars,
                   scene_durations, audio_tasks, voice_collected, voice_clips,
                   bg_music, error, output>>
    /\ UNCHANGED <<threadVars, callVars>>

\* as_completed hands a finished load to the main thread
CollectVoice(k) ==
    /\ pc = "voices"
    /\ voice_futures[k].state = "done"
    /\ k \notin voice_collected
    /\ voice_collected' = voice_collected \cup {k}
    /\ voice_clips' = IF voice_futures[k].result.loaded
                      THEN Append(voice_clips, voice_futures[k].result)
                      ELSE voice_clips
    /\ UNCHANGED <<pc, inputVars, timelineVars, image_cache, renderVars,
                   scene_durations, audio_tasks, voice_futures, bg_music,
                   error, output>>
    /\ UNCHANGED <<threadVars, callVars>>

\* load_audio_clips_concurrent returns
VoicesLoaded ==
    /\ pc = "voices"
    /\ voice_collected = DOMAIN voice_futures
    /\ pc' = "bgmusic"
    /\ UNCHANGED <<inputVars, timelineVars, image_cache, renderVars, audioVars,
                   error, output>>
    /\ UNCHANGED <<threadVars, callVars>>

(* ---------------------- audio: background music ----------------------- *)
\* rounding the number of repetitions down instead of up
LoopsNeededFloor(duration, music) == FloorDiv(duration, music)

\* int(np.ceil(total_duration / bg_music_clip.duration))
LoopsNeeded(duration, music) == CeilDiv(duration, music)

\* clip.subclipped(0, end): a clip of length end, of which the part the
\* source covers carries sound
Subclipped(source, end) ==
    [duration |-> end, audible |-> Min(end, source)]

process_background_music(file, duration) ==
    IF ~file.exists THEN NoMusic
    ELSE LET music == file.halves * HalfSec
             loops == IF music < duration THEN LoopsNeeded(duration, music)
                      ELSE 1
             cut == Subclipped(loops * music, duration)
         IN  [present |-> TRUE, music |-> music, loops |-> loops,
              duration |-> cut.duration, audible |-> cut.audible]

\* the background music future is submitted and awaited
ProcessBackgroundMusic ==
    /\ pc = "bgmusic"
    /\ \E file \in MusicFiles :
           bg_music' = process_background_music(file, total_duration)
    /\ pc' = "compose"
    /\ UNCHANGED <<inputVars, timelineVars, image_cache, renderVars,
                   scene_durations, audio_tasks, voice_futures,
                   voice_collected, voice_clips, error, output>>
    /\ UNCHANGED <<threadVars, callVars>>

(* --------------------------- final assembly --------------------------- *)
\* The encoder asks make_frame for the timestamps k / fps below the clip's
\* duration; the frames for which make_frame had no rendered frame:
SubstituteFrames ==
    {k \in 0..(CeilDiv(total_duration * fps, TicksPerSec) - 1) :
        make_frame(k, fps) = BlackFrame}

\* taking the audio branch whatever was loaded
HasAudioAlways == TRUE

\* if voice_clips or bg_music:
HasAudio == voice_clips # <<>> \/ bg_music.present

\* write_videofile returns: the video file exists
WriteVideo ==
    /\ pc = "compose"
    /\ output' = [written |-> TRUE, audio |-> HasAudio,
                  duration |-> total_duration,
                  substitutes |-> SubstituteFrames]
    /\ pc' = "done"
    /\ UNCHANGED <<inputVars, timelineVars, image_cache, renderVars, audioVars,
                   error>>
    /\ UNCHANGED <<threadVars, callVars>>

\* composing or write_videofile raises: with audio the try block reports it
\* and the function returns, without audio nothing catches it
WriteVideoRaises ==
    /\ pc = "compose"
    /\ IF HasAudio
       THEN pc' = "returned" /\ error' = "compose failed"
       ELSE pc' = "aborted" /\ error' = "encoder error"
    /\ UNCHANGED <<inputVars, timelineVars, image_cache, renderVars, audioVars,
                   output>>
    /\ UNCHANGED <<threadVars, callVars>>

Next ==
    \/ LoadCaptionsEmpty
    \/ GenerateTimeline
    \/ PreloadImages
    \/ PrepareBatches
    \/ \E b \in DOMAIN futures : RenderBatchOk(b)
    \/ \E b \in DOMAIN futures : RenderBatchRaises(b)
    \/ \E b \in DOMAIN futures : CollectBatch(b)
    \/ CreateVideoClip
    \/ PrepareAudio
    \/ \E k \in DOMAIN voice_futures : LoadSingleAudio(k)
    \/ \E k \in DOMAIN voice_futures : CollectVoice(k)
    \/ VoicesLoaded
    \/ ProcessBackgroundMusic
    \/ WriteVideo
    \/ WriteVideoRaises

Spec == Init /\ [][Next]_vars

(* ----------------- get_cached_image, call by call --------------------- *)
Threads == 1..MaxThreads
Images == 1..MaxImages

\* np.zeros((height, width, 3), dtype=np.uint8)
BlackPixels == [kind |-> "black", of |-> 0, shape |-> <<Height, Width>>]

\* using what cv2.imread returned without looking at it
FilePixelsUnchecked(key) ==
    IF readable[key]
    THEN [kind |-> "image", of |-> key, shape |-> <<Height, Width>>]
    ELSE [kind |-> "none", of |-> 0, shape |-> <<0, 0>>]

\* what cv2.imread and the resize, or the placeholder, put into the buffer
FilePixels(key) ==
    IF readable[key]
    THEN [kind |-> "image", of |-> key, shape |-> <<Height, Width>>]
    ELSE BlackPixels
\* what a caller that transforms its image in place leaves in the buffer
EditedPixels(t) == [kind |-> "edited", of |-> t, shape |-> <<Height, Width>>]

\* the buffer a call hands to thread t
Copy(t) == <<"copy", 0, t>>

\* returning the buffer itself instead of a copy of it
ReturnedAlias(t, src) == src

\* return image_cache[image_path].copy() / return img.copy()
ReturnedBuffer(t, src) == Copy(t)

\* the warnings printed for a key after one more cv2.imread of its file: a
\* file that cannot be decoded is reported
Warned(count, key) == IF readable[key] THEN count ELSE count + 1

\* The calls made while frames are rendered: the images 1..p were preloaded,
\* the rest were not.  The steps of create_complete_video are not followed.
InitCache ==
    /\ captions = <<>>
    /\ fps = 1
    /\ cpu_count = 1
    /\ PipelineAtLoad
    /\ readable \in [Images -> BOOLEAN]
    /\ \E p \in 0..MaxImages :
          /\ image_cache = [k \in 1..p |-> Decoded(k, 0)]
          /\ heap = [b \in {Decoded(k, 0) : k \in 1..p} |-> FilePixels(b[2])]
    /\ decodes = [k \in Images |-> 0]
    /\ warnings = [k \in Images |->
                      IF k \in DOMAIN image_cache /\ ~readable[k] THEN 1 ELSE 0]
    /\ tpc = [t \in Threads |-> "idle"]
    /\ tkey = [t \in Threads |-> 1]
    /\ timg = [t \in Threads |-> Copy(t)]
    /\ ProcessorsNotFollowed
    /\ MuxNotFollowed
    /\ FontsNotFollowed
    /\ EffectsNotFollowed
    /\ SubtitlesNotFollowed

pipelineVars == <<pc, inputVars, timelineVars, renderVars, audioVars, error,
                  output>>

\* the buffers something still refers to: the cache, the local img of a call
\* between its decode and its return, the image a caller holds
Referenced(cache, pcs, keys, imgs) ==
    Range(cache)
    \cup {Decoded(keys[t], t) : t \in {u \in DOMAIN pcs : pcs[u] \in {"store", "return"}}}
    \cup {imgs[t] : t \in {u \in DOMAIN pcs : pcs[u] \in {"holding", "edited"}}}

\* a buffer nothing refers to is freed
Freed(h, cache, pcs, keys, imgs) ==
    [b \in (DOMAIN h) \cap Referenced(cache, pcs, keys, imgs) |-> h[b]]

\* thread t calls get_cached_image(shot, key, width, height)
CallGetCachedImage(t, key) ==
    /\ tpc[t] \in {"idle", "holding", "edited"}
    /\ tpc' = [tpc EXCEPT ![t] = "check"]
    /\ tkey' = [tkey EXCEPT ![t] = key]
    /\ heap' = Freed(heap, image_cache, tpc', tkey', timg)
    /\ UNCHANGED <<pipelineVars, callVars, image_cache, readable, decodes, timg,
                   warnings>>

\* with image_cache_lock: a cached image is copied and returned
CheckCache(t) ==
    /\ tpc[t] = "check"
    /\ IF tkey[t] \in DOMAIN image_cache
       THEN LET src == image_cache[tkey[t]]
                dst == ReturnedBuffer(t, src)
            IN  /\ heap' = (dst :> heap[src]) @@ heap
                /\ timg' = [timg EXCEPT ![t] = dst]
                /\ tpc' = [tpc EXCEPT ![t] = "holding"]
       ELSE /\ tpc' = [tpc EXCEPT ![t] = "decode"]
            /\ UNCHANGED <<heap, timg>>
    /\ UNCHANGED <<pipelineVars, callVars, image_cache, readable, decodes, tkey,
                   warnings>>

\* outside the lock: cv2.imread, then the resize or the black placeholder
DecodeImage(t) ==
    /\ tpc[t] = "decode"
    /\ heap' = (Decoded(tkey[t], t) :> FilePixels(tkey[t])) @@ heap
    /\ decodes' = [decodes EXCEPT ![tkey[t]] = @ + 1]
    /\ warnings' = [warnings EXCEPT ![tkey[t]] = Warned(@, tkey[t])]
    /\ tpc' = [tpc EXCEPT ![t] = "store"]
    /\ UNCHANGED <<pipelineVars, callVars, image_cache, readable, tkey, timg>>

\* with image_cache_lock: image_cache[image_path] = img
StoreImage(t) ==
    /\ tpc[t] = "store"
    /\ image_cache' = (tkey[t] :> Decoded(tkey[t], t)) @@ image_cache
    /\ tpc' = [tpc EXCEPT ![t] = "return"]
    /\ heap' = Freed(heap, image_cache', tpc', tkey, timg)
    /\ UNCHANGED <<pipelineVars, callVars, readable, decodes, tkey, timg,
                   warnings>>

\* return img.copy()
ReturnCopy(t) ==
    /\ tpc[t] = "return"
    /\ LET src == Decoded(tkey[t], t)
           dst == ReturnedBuffer(t, src)
       IN  /\ timg' = [timg EXCEPT ![t] = dst]
           /\ tpc' = [tpc EXCEPT ![t] = "holding"]
           /\ heap' = Freed((dst :> heap[src]) @@ heap, image_cache, tpc',
                            tkey, timg')
    /\ UNCHANGED <<pipelineVars, callVars, image_cache, readable, decodes, tkey,
                   warnings>>

\* the caller transforms the image it was handed, in place
EditImage(t) ==
    /\ tpc[t] = "holding"
    /\ heap' = [heap EXCEPT ![timg[t]] = EditedPixels(t)]
    /\ tpc' = [tpc EXCEPT ![t] = "edited"]
    /\ UNCHANGED <<pipelineVars, callVars, image_cache, readable, decodes, tkey, timg,
                   warnings>>

NextCache ==
    \/ \E t \in Threads, key \in Images : CallGetCachedImage(t, key)
    \/ \E t \in Threads : CheckCache(t)
    \/ \E t \in Threads : DecodeImage(t)
    \/ \E t \in Threads : StoreImage(t)
    \/ \E t \in Threads : ReturnCopy(t)
    \/ \E t \in Threads : EditImage(t)

SpecCache == InitCache /\ [][NextCache]_vars

(* ------------------ the frame batches on their own -------------------- *)
InitBatch ==
    /\ captions = <<>>
    /\ fps = 1
    /\ cpu_count \in 1..MaxBatchCpu
    /\ PipelineAtLoad
    /\ image_cache = <<>>
    /\ ThreadsNotFollowed
    /\ ProcessorsNotFollowed
    /\ MuxNotFollowed
    /\ FontsNotFollowed
    /\ EffectsNotFollowed
    /\ SubtitlesNotFollowed

\* the total frame count the batches are built for
ChooseTotalFrames ==
    /\ pc = "load"
    /\ \E frames \in 0..MaxBatchFrames : total_frames' = frames
    /\ pc' = "batches"
    /\ UNCHANGED <<inputVars, all_segments, total_duration, image_cache,
                   renderVars, audioVars, error, output, threadVars,
                   callVars>>

NextBatch == ChooseTotalFrames \/ PrepareBatches

SpecBatch == InitBatch /\ [][NextBatch]_vars

(* ------------------------- get_cached_font ---------------------------- *)
FontPaths == 1..MaxFonts
FontSizes == 1..MaxFontSizes
FontKeys == FontPaths \X FontSizes

\* A font object: ImageFont.truetype and ImageFont.load_default make a new
\* object at each call, named here by its key and by the number of objects
\* made for that key so far.
TrueTypeFont(key, n) == [kind |-> "truetype", key |-> key, object |-> n]
DefaultFont(key, n) == [kind |-> "default", key |-> key, object |-> n]

\* try: ImageFont.truetype(font_path, font_size)
\* except: ImageFont.load_default()
LoadFont(key, n) ==
    IF key[1] \in font_files THEN TrueTypeFont(key, n) ELSE DefaultFont(key, n)

\* the except branch prints nothing
FontWarned(count, key) == count

InitFont ==
    /\ captions = <<>>
    /\ fps = 1
    /\ cpu_count = 1
    /\ PipelineAtLoad
    /\ image_cache = <<>>
    /\ ThreadsNotFollowed
    /\ ProcessorsNotFollowed
    /\ MuxNotFollowed
    /\ font_files \in SUBSET FontPaths
    /\ font_cache = <<>>
    /\ font_loads = [key \in FontKeys |-> 0]
    /\ font_returned = NoCall
    /\ font_warnings = [key \in FontKeys |-> 0]
    /\ EffectsNotFollowed
    /\ SubtitlesNotFollowed

\* get_cached_font(font_path, font_size); font_cache_lock is held from the
\* lookup to the return, so the call is one step
get_cached_font(cache_key) ==
    /\ IF cache_key \in DOMAIN font_cache
       THEN /\ font_returned' = [called |-> TRUE, key |-> cache_key,
                                 font |-> font_cache[cache_key]]
            /\ UNCHANGED <<font_cache, font_loads, font_warnings>>
       ELSE LET font == LoadFont(cache_key, font_loads[cache_key] + 1)
            IN  /\ font_loads' = [font_loads EXCEPT ![cache_key] = @ + 1]
                /\ font_cache' = (cache_key :> font) @@ font_cache
                /\ font_warnings' =
                      [font_warnings EXCEPT ![cache_key] =
                          IF font.kind = "default"
                          THEN FontWarned(@, cache_key) ELSE @]
                /\ font_returned' = [called |-> TRUE, key |-> cache_key,
                                     font |-> font]
    /\ UNCHANGED <<pipelineVars, image_cache, threadVars, font_files,
                   effectVars, subtitleVars, processorVars,
                   muxVars>>

NextFont == \E cache_key \in FontKeys : get_cached_font(cache_key)

SpecFont == InitFont /\ [][NextFont]_vars

(* ------------------- apply_ken_burns_effect on its own ---------------- *)
EFFECT_SEQUENCE ==
    << "zoom_in", "pan_left", "zoom_pan_right", "pan_up", "zoom_out",
       "pan_down", "zoom_pan_left", "spiral", "pan_right", "zoom_pan_up",
       "rotate_zoom", "zoom_in", "pan_left", "zoom_pan_down", "pan_up" >>

\* the constants of class KenBurnsEffect
KenBurnsEffect ==
    {"zoom_in", "zoom_out", "pan_left", "pan_right", "pan_up", "pan_down",
     "zoom_pan_left", "zoom_pan_right", "zoom_pan_up", "zoom_pan_down",
     "rotate_zoom", "spiral"}

\* indexing the sequence by the scene number itself
EffectTypeNoOffset(scene_number) ==
    EFFECT_SEQUENCE[(scene_number % Len(EFFECT_SEQUENCE)) + 1]

\* effect_type = EFFECT_SEQUENCE[(scene_number - 1) % len(EFFECT_SEQUENCE)]
EffectType(scene_number) ==
    EFFECT_SEQUENCE[((scene_number - 1) % Len(EFFECT_SEQUENCE)) + 1]

\* Progress and eased progress are exact fractions: progress is
\* pnum / ProgressSteps, eased progress is a numerator over EasedDen.
EasedDen == 2 * ProgressSteps * ProgressSteps * ProgressSteps

\* using progress as it was passed
ClampProgressNone(pnum) == pnum

\* progress = max(0.0, min(1.0, progress))
ClampProgress(pnum) == Max(0, Min(ProgressSteps, pnum))

Cube(x) == x * x * x

\* the first branch alone: 4 * t * t * t for every t
easing_cubic_in(pnum) == 8 * Cube(pnum)

\* easing_function(t) for t = pnum / ProgressSteps, over EasedDen
easing_function(pnum) ==
    IF 2 * pnum < ProgressSteps
    THEN 8 * Cube(pnum)
    ELSE EasedDen - 8 * Cube(ProgressSteps - pnum)

\* int(x) of the exact fraction n / d: truncation towards zero
Trunc(n, d) == IF n >= 0 THEN n \div d ELSE -((-n) \div d)

\* int(x) of a float expression whose exact value is n / d.  The float value
\* differs from the exact one by rounding errors far smaller than the
\* spacing of the fractions used here, so int() can differ from the exact
\* truncation only when n / d is a positive integer and the float value fell
\* just short of it (int(1440 * 1.15) is 1655).
IntOfFloat(n, d, short) ==
    IF short /\ n > 0 /\ n % d = 0 THEN Trunc(n, d) - 1 ELSE Trunc(n, d)

\* current_zoom = zoom_start + (zoom_end - zoom_start) * progress, with the
\* zooms in hundredths: the numerator over 100 * EasedDen
CurrentZoom(zoom_start, zoom_end, eased) ==
    zoom_start * EasedDen + (zoom_end - zoom_start) * eased

\* int(size * current_zoom); a zoom of exactly 1.0 is exact in floats as well
ZoomSize(size, zoom, short) ==
    IF zoom = 100 * EasedDen THEN size
    ELSE IntOfFloat(size * zoom, 100 * EasedDen, short)

\* the number of indices buf[start:start+len] selects along an axis of the
\* given size (a negative index counts from the end)
SliceIndex(i, size) == IF i < 0 THEN Max(0, i + size) ELSE Min(i, size)
SliceLen(start, len, size) ==
    Max(0, SliceIndex(start + len, size) - SliceIndex(start, size))

\* using the computed offset as it is
ClampStartNone(start, limit) == start

\* start = max(0, min(start, zoom_size - size))
ClampStart(start, limit) == Max(0, Min(start, limit))

\* cv2.resize(img, (zoom_width, zoom_height)) and the crop
\* zoomed_img[start_y:start_y+height, start_x:start_x+width]; raw_x and raw_y
\* are the offsets before any clamping
Cropped(width, height, zoom_width, zoom_height, start_x, start_y, raw_x, raw_y) ==
    [returned |-> TRUE,
     raised |-> zoom_width <= 0 \/ zoom_height <= 0,
     buffer |-> "zoomed",
     buf_width |-> zoom_width, buf_height |-> zoom_height,
     start_x |-> start_x, start_y |-> start_y,
     raw_x |-> raw_x, raw_y |-> raw_y,
     shape |-> <<SliceLen(start_y, height, zoom_height),
                 SliceLen(start_x, width, zoom_width)>>]

\* apply_zoom_in and apply_zoom_out: a centred crop
apply_zoom(zoom_start, zoom_end, eased, width, height, sw, sh) ==
    LET current_zoom == CurrentZoom(zoom_start, zoom_end, eased)
        zoom_height == ZoomSize(height, current_zoom, sh)
        zoom_width == ZoomSize(width, current_zoom, sw)
        start_y == (zoom_height - height) \div 2
        start_x == (zoom_width - width) \div 2
    IN  Cropped(width, height, zoom_width, zoom_height, start_x, start_y,
                start_x, start_y)

apply_zoom_in(eased, width, height, sw, sh) ==
    apply_zoom(100, 130, eased, width, height, sw, sh)

apply_zoom_out(eased, width, height, sw, sh) ==
    apply_zoom(130, 100, eased, width, height, sw, sh)

\* apply_pan_left and apply_pan_right: zoom 1.2, the window travels
\* int(width * 0.3) horizontally
apply_pan_x(leftwards, eased, width, height, sw, sh, ss) ==
    LET pan_distance == IntOfFloat(width * 3, 10, ss)
        zoom_width == IntOfFloat(width * 12, 10, sw)
        zoom_height == IntOfFloat(height * 12, 10, sh)
        raw_x == IF leftwards
                 THEN IntOfFloat((zoom_width - width) * EasedDen
                                 - eased * pan_distance, EasedDen, ss)
                 ELSE IntOfFloat(eased * pan_distance, EasedDen, ss)
        start_y == (zoom_height - height) \div 2
    IN  Cropped(width, height, zoom_width, zoom_height,
                ClampStart(raw_x, zoom_width - width), start_y, raw_x, start_y)

apply_pan_left(eased, width, height, sw, sh, ss) ==
    apply_pan_x(TRUE, eased, width, height, sw, sh, ss)

apply_pan_right(eased, width, height, sw, sh, ss) ==
    apply_pan_x(FALSE, eased, width, height, sw, sh, ss)

\* apply_pan_up and apply_pan_down: zoom 1.2, the window travels
\* int(height * 0.3) vertically
apply_pan_y(upwards, eased, width, height, sw, sh, ss) ==
    LET pan_distance == IntOfFloat(height * 3, 10, ss)
        zoom_width == IntOfFloat(width * 12, 10, sw)
        zoom_height == IntOfFloat(height * 12, 10, sh)
        start_x == (zoom_width - width) \div 2
        raw_y == IF upwards
                 THEN IntOfFloat((zoom_height - height) * EasedDen
                                 - eased * pan_distance, EasedDen, ss)
                 ELSE IntOfFloat(eased * pan_distance, EasedDen, ss)
    IN  Cropped(width, height, zoom_width, zoom_height,
                start_x, ClampStart(raw_y, zoom_height - height), start_x, raw_y)

apply_pan_up(eased, width, height, sw, sh, ss) ==
    apply_pan_y(TRUE, eased, width, height, sw, sh, ss)

apply_pan_down(eased, width, height, sw, sh, ss) ==
    apply_pan_y(FALSE, eased, width, height, sw, sh, ss)

\* apply_zoom_pan_left and apply_zoom_pan_right: zoom 1.0 to 1.25, the window
\* leaves the centre by progress * int(width * 0.2); sign is -1 or 1
apply_zoom_pan_x(sign, eased, width, height, sw, sh, ss) ==
    LET current_zoom == CurrentZoom(100, 125, eased)
        pan_distance == IntOfFloat(width * 2, 10, ss)
        zoom_width == ZoomSize(width, current_zoom, sw)
        zoom_height == ZoomSize(height, current_zoom, sh)
        raw_x == IntOfFloat((zoom_width - width) * EasedDen
                            + sign * 2 * eased * pan_distance,
                            2 * EasedDen, ss)
        start_y == (zoom_height - height) \div 2
    IN  Cropped(width, height, zoom_width, zoom_height,
                ClampStart(raw_x, zoom_width - width), start_y, raw_x, start_y)

apply_zoom_pan_left(eased, width, height, sw, sh, ss) ==
    apply_zoom_pan_x(-1, eased, width, height, sw, sh, ss)

apply_zoom_pan_right(eased, width, height, sw, sh, ss) ==
    apply_zoom_pan_x(1, eased, width, height, sw, sh, ss)

\* apply_zoom_pan_up and apply_zoom_pan_down
apply_zoom_pan_y(sign, eased, width, height, sw, sh, ss) ==
    LET current_zoom == CurrentZoom(100, 125, eased)
        pan_distance == IntOfFloat(height * 2, 10, ss)
        zoom_width == ZoomSize(width, current_zoom, sw)
        zoom_height == ZoomSize(height, current_zoom, sh)
        start_x == (zoom_width - width) \div 2
        raw_y == IntOfFloat((zoom_height - height) * EasedDen
                            + sign * 2 * eased * pan_distance,
                            2 * EasedDen, ss)
    IN  Cropped(width, height, zoom_width, zoom_height,
                start_x, ClampStart(raw_y, zoom_height - height), start_x, raw_y)

apply_zoom_pan_up(eased, width, height, sw, sh, ss) ==
    apply_zoom_pan_y(-1, eased, width, height, sw, sh, ss)

apply_zoom_pan_down(eased, width, height, sw, sh, ss) ==
    apply_zoom_pan_y(1, eased, width, height, sw, sh, ss)

\* apply_rotate_zoom: the zoomed image is pasted into the centre of a square
\* canvas, the canvas is rotated about its centre (its size is kept) and the
\* target is cropped from the centre of the canvas
apply_rotate_zoom(eased, width, height, sw, sh, ss) ==
    LET current_zoom == CurrentZoom(110, 130, eased)
        canvas_size == IntOfFloat(Max(width, height) * current_zoom * 3,
                                  100 * EasedDen * 2, ss)
        zoom_width == ZoomSize(width, current_zoom, sw)
        zoom_height == ZoomSize(height, current_zoom, sh)
        start_y == (canvas_size - zoom_height) \div 2
        start_x == (canvas_size - zoom_width) \div 2
        final_start_y == (canvas_size - height) \div 2
        final_start_x == (canvas_size - width) \div 2
    IN  [returned |-> TRUE,
         raised |-> \/ zoom_width <= 0 \/ zoom_height <= 0
                    \/ SliceLen(start_y, zoom_height, canvas_size) # zoom_height
                    \/ SliceLen(start_x, zoom_width, canvas_size) # zoom_width,
         buffer |-> "canvas",
         buf_width |-> canvas_size, buf_height |-> canvas_size,
         start_x |-> final_start_x, start_y |-> final_start_y,
         raw_x |-> final_start_x, raw_y |-> final_start_y,
         shape |-> <<SliceLen(final_start_y, height, canvas_size),
                     SliceLen(final_start_x, width, canvas_size)>>]

\* spiral_radius = min(width, height) * 0.1 * progress, over 10 * EasedDen
SpiralRadius(eased, width, height) == Min(width, height) * eased

\* pan_x = int(cos(angle) * spiral_radius), pan_y = int(sin(angle) * ...)
\* with angle = progress * 2 * pi.  The cosine and sine are not computed:
\* the pair is any integer point of the disc of radius spiral_radius, and at
\* progress 0 and 1 the point the code computes, (0, 0) and
\* (int(spiral_radius), 0) (int(-2.4e-16 * radius) is 0).
SpiralPans(eased, width, height, ss) ==
    LET radius == SpiralRadius(eased, width, height)
        whole == Trunc(radius, 10 * EasedDen)
    IN  IF eased = 0 THEN {<<0, 0>>}
        ELSE IF eased = EasedDen
        THEN {<<IntOfFloat(radius, 10 * EasedDen, ss), 0>>}
        ELSE {pan \in (-whole..whole) \X (-whole..whole) :
                 100 * EasedDen * EasedDen
                     * (pan[1] * pan[1] + pan[2] * pan[2])
                 <= radius * radius}

apply_spiral(eased, width, height, sw, sh, pan) ==
    LET current_zoom == CurrentZoom(100, 140, eased)
        zoom_width == ZoomSize(width, current_zoom, sw)
        zoom_height == ZoomSize(height, current_zoom, sh)
        raw_x == (zoom_width - width) \div 2 + pan[1]
        raw_y == (zoom_height - height) \div 2 + pan[2]
    IN  Cropped(width, height, zoom_width, zoom_height,
                ClampStart(raw_x, zoom_width - width),
                ClampStart(raw_y, zoom_height - height), raw_x, raw_y)

\* apply_ken_burns_effect(img, progress, effect_type, width, height); sw, sh
\* and ss say which float products fell short, pan is the spiral offset
\* what apply_ken_burns_effect computed: the clamped progress, the eased
\* progress, and the crop the effect function returned
Computed(progress, eased_progress, crop) ==
    [k \in (DOMAIN crop) \cup {"progress", "eased_progress"} |->
        CASE k = "progress" -> progress
          [] k = "eased_progress" -> eased_progress
          [] OTHER -> crop[k]]

apply_ken_burns_effect(pnum, effect_type, width, height, sw, sh, ss, pan) ==
    LET progress == ClampProgress(pnum)
        eased_progress == easing_function(progress)
    IN  Computed(progress, eased_progress,
        CASE effect_type = "zoom_in" ->
                 apply_zoom_in(eased_progress, width, height, sw, sh)
          [] effect_type = "zoom_out" ->
                 apply_zoom_out(eased_progress, width, height, sw, sh)
          [] effect_type = "pan_left" ->
                 apply_pan_left(eased_progress, width, height, sw, sh, ss)
          [] effect_type = "pan_right" ->
                 apply_pan_right(eased_progress, width, height, sw, sh, ss)
          [] effect_type = "pan_up" ->
                 apply_pan_up(eased_progress, width, height, sw, sh, ss)
          [] effect_type = "pan_down" ->
                 apply_pan_down(eased_progress, width, height, sw, sh, ss)
          [] effect_type = "zoom_pan_left" ->
                 apply_zoom_pan_left(eased_progress, width, height, sw, sh, ss)
          [] effect_type = "zoom_pan_right" ->
                 apply_zoom_pan_right(eased_progress, width, height, sw, sh, ss)
          [] effect_type = "zoom_pan_up" ->
                 apply_zoom_pan_up(eased_progress, width, height, sw, sh, ss)
          [] effect_type = "zoom_pan_down" ->
                 apply_zoom_pan_down(eased_progress, width, height, sw, sh, ss)
          [] effect_type = "rotate_zoom" ->
                 apply_rotate_zoom(eased_progress, width, height, sw, sh, ss)
          [] effect_type = "spiral" ->
                 apply_spiral(eased_progress, width, height, sw, sh, pan)
          [] OTHER ->
                 apply_zoom_in(eased_progress, width, height, sw, sh))

Sizes == 1..MaxSize
ProgressValues == (-1)..(ProgressSteps + 2)

\* The calls: one made by render_frame_batch for a frame of scene
\* scene_number, with the effect of that scene, or one made with any effect
\* type, a type that is no KenBurnsEffect included (scene 0).
EffectCalls ==
    {[called |-> TRUE, scene |-> c.scene, width |-> c.width,
      height |-> c.height, pnum |-> c.pnum,
      effect_type |-> IF c.scene = 0 THEN c.effect_type
                      ELSE EffectType(c.scene)] :
        c \in {d \in [scene : 0..MaxSceneNumber, width : Sizes, height : Sizes,
                      pnum : ProgressValues,
                      effect_type : KenBurnsEffect \cup {"unknown"}] :
                  d.scene # 0 => d.effect_type = "zoom_in"}}

InitEffect ==
    /\ captions = <<>>
    /\ fps = 1
    /\ cpu_count = 1
    /\ PipelineAtLoad
    /\ image_cache = <<>>
    /\ ThreadsNotFollowed
    /\ ProcessorsNotFollowed
    /\ MuxNotFollowed
    /\ FontsNotFollowed
    /\ effect_call \in EffectCalls
    /\ effect_result = NoResult
    /\ SubtitlesNotFollowed

\* the call runs and returns
ApplyKenBurnsEffect ==
    /\ effect_call.called
    /\ ~effect_result.returned
    /\ \E sw, sh, ss \in BOOLEAN :
         \E pan \in IF effect_call.effect_type = "spiral"
                     THEN SpiralPans(easing_function(ClampProgress(effect_call.pnum)),
                                     effect_call.width, effect_call.height, ss)
                     ELSE {<<0, 0>>} :
             effect_result' =
                 apply_ken_burns_effect(effect_call.pnum,
                                        effect_call.effect_type,
                                        effect_call.width, effect_call.height,
                                        sw, sh, ss, pan)
    /\ UNCHANGED <<pipelineVars, image_cache, threadVars, fontVars,
                   effect_call, subtitleVars, processorVars,
                   muxVars>>

NextEffect == ApplyKenBurnsEffect

SpecEffect == InitEffect /\ [][NextEffect]_vars

(* ------------- SubtitleRenderer.get_subtitle_at_time on its own ------- *)
\* The entries parse_rst_file can put into timing_info: whatever times and
\* text the RST file states, in the order of the file.
SubtitleTexts == {"a", "b"}
SubtitleEntries ==
    [text : SubtitleTexts, start_time : 0..MaxTime, end_time : 0..MaxTime]
TimingInfos == UNION {[1..n -> SubtitleEntries] : n \in 0..MaxSegments}

InitSubtitle ==
    /\ captions = <<>>
    /\ fps = 1
    /\ cpu_count = 1
    /\ PipelineAtLoad
    /\ image_cache = <<>>
    /\ ThreadsNotFollowed
    /\ ProcessorsNotFollowed
    /\ MuxNotFollowed
    /\ FontsNotFollowed
    /\ EffectsNotFollowed
    /\ timing_info \in TimingInfos
    /\ current_time \in 0..MaxTime
    /\ subtitle_text = NoResult

\* rst_renderer.get_subtitle_at_time(current_time) runs and returns
GetSubtitleAtTime ==
    /\ ~subtitle_text.returned
    /\ subtitle_text' = [returned |-> TRUE,
                         text |-> get_subtitle_at_time(timing_info, current_time)]
    /\ UNCHANGED <<pipelineVars, image_cache, threadVars, fontVars,
                   effectVars, timing_info, current_time, processorVars,
                   muxVars>>

NextSubtitle == GetSubtitleAtTime

SpecSubtitle == InitSubtitle /\ [][NextSubtitle]_vars

(* --------------- methods of the processors on their own --------------- *)
\* A text is the list text.split() makes of it, each word given by its
\* number of characters (a word has at least one and holds no white space);
\* a chunk is the list of the words joined in it by single spaces.
Texts == UNION {[1..n -> 1..MaxWordLen] : n \in 0..MaxWords}

\* len(chunk) of a chunk of at least one word
ChunkLen(chunk) == SeqSum(chunk) + Len(chunk) - 1

\* the loop over words from word i on, and the final append
RECURSIVE SplitFrom(_, _, _, _, _)
SplitFrom(words, i, chunks, current_chunk, max_chars_per_chunk) ==
    LET saved == IF current_chunk # <<>> THEN Append(chunks, current_chunk)
                 ELSE chunks
    IN  IF i > Len(words) THEN saved
        ELSE LET test_chunk == Append(current_chunk, words[i])
             IN  IF ChunkLen(test_chunk) <= max_chars_per_chunk
                 THEN SplitFrom(words, i + 1, chunks, test_chunk,
                                max_chars_per_chunk)
                 ELSE SplitFrom(words, i + 1, saved, <<words[i]>>,
                                max_chars_per_chunk)

split_into_chunks(words, max_chars_per_chunk) ==
    SplitFrom(words, 1, <<>>, <<>>, max_chars_per_chunk)

SplitCalls ==
    [called : {TRUE}, words : Texts, max_chars_per_chunk : 1..MaxChars]

\* StoryboardProcessor.__init__(generate_audio = wanted) where speech_key
\* tells whether AZURE_SPEECH_KEY is set, available whether the Azure SDK
\* could be imported, and init_ok whether AzureSpeechSynthesizer(...)
\* returned.  The attribute tts is assigned only inside the try block.
StoryboardProcessor(wanted, speech_key, available, init_ok) ==
    LET with_key == wanted /\ speech_key
    IN  [constructed |-> TRUE,
         AZURE_SPEECH_AVAILABLE |-> available,
         generate_audio |-> with_key /\ (available => init_ok),
         has_tts |-> with_key /\ available /\ init_ok]

\* storylines of a shot, by scene number
Storylines == UNION {[1..n -> 1..MaxScenes] : n \in 1..MaxScenes}

\* What client.chat.completions.create does: it raises, or it answers with
\* text that is no JSON, with JSON that is no list, or with a JSON list; an
\* entry of the list is a dict with a flux_prompt, a dict without one (or
\* with an empty one), or no dict at all.
LlmAnswers ==
    [kind : {"raises", "not_json", "not_a_list"}, entries : {<<>>}]
    \cup [kind : {"list"},
          entries : UNION {[1..n -> {"prompt", "no_prompt", "not_a_dict"}] :
                              n \in 0..MaxScenes}]

EnhanceCalls ==
    [called : {TRUE}, visual_descriptions : 0..MaxScenes, answer : LlmAnswers]

\* _generate_fallback_prompts(visual_descriptions): each description gets
\* self.translate_to_flux_prompt(...), a method PromptEnhancer does not
\* have (StoryboardProcessor defines it), so the first description raises
\* AttributeError; an empty list is returned as it is.
generate_fallback_prompts(visual_descriptions) ==
    IF visual_descriptions = 0
    THEN [returned |-> TRUE, raised |-> FALSE, prompts |-> <<>>]
    ELSE [returned |-> TRUE, raised |-> TRUE, prompts |-> <<>>]

\* enhance_flux_prompts_batch(visual_descriptions).  Every failure inside
\* the try block, an exception of the first _generate_fallback_prompts call
\* included, ends in the handler "except Exception", which calls
\* _generate_fallback_prompts again, outside any try.
enhance_flux_prompts_batch(visual_descriptions, answer) ==
    IF /\ answer.kind = "list"
       /\ Len(answer.entries) = visual_descriptions
       /\ \A i \in 1..Len(answer.entries) : answer.entries[i] # "not_a_dict"
    THEN [returned |-> TRUE, raised |-> FALSE,
          prompts |-> [i \in 1..Len(answer.entries) |->
                          IF answer.entries[i] = "prompt" THEN "llm"
                          ELSE "default"]]
    ELSE generate_fallback_prompts(visual_descriptions)

InitProcessor ==
    /\ captions = <<>>
    /\ fps = 1
    /\ cpu_count = 1
    /\ PipelineAtLoad
    /\ image_cache = <<>>
    /\ ThreadsNotFollowed
    /\ FontsNotFollowed
    /\ EffectsNotFollowed
    /\ SubtitlesNotFollowed
    /\ MuxNotFollowed
    /\ \/ /\ split_call \in SplitCalls
          /\ split_result = NoResult
          /\ processor = [constructed |-> FALSE]
          /\ storylines = <<>>
          /\ audio_files = {}
          /\ ensure_result = NoResult
          /\ enhance_call = NoCall
          /\ enhance_result = NoResult
       \/ /\ split_call = NoCall
          /\ split_result = NoResult
          /\ processor = [constructed |-> FALSE]
          /\ storylines = <<>>
          /\ audio_files = {}
          /\ ensure_result = NoResult
          /\ enhance_call \in EnhanceCalls
          /\ enhance_result = NoResult
       \/ /\ split_call = NoCall
          /\ split_result = NoResult
          /\ enhance_call = NoCall
          /\ enhance_result = NoResult
          /\ \E wanted, speech_key, available, init_ok \in BOOLEAN :
                processor = StoryboardProcessor(wanted, speech_key, available,
                                                init_ok)
          /\ storylines \in Storylines
          /\ audio_files \in SUBSET (1..MaxScenes)
          /\ ensure_result = NoResult

\* split_into_chunks(text, max_chars_per_chunk) runs and returns
SplitIntoChunks ==
    /\ split_call.called
    /\ ~split_result.returned
    /\ split_result' =
          [returned |-> TRUE,
           chunks |-> split_into_chunks(split_call.words,
                                        split_call.max_chars_per_chunk)]
    /\ UNCHANGED <<pipelineVars, image_cache, threadVars, fontVars,
                   effectVars, subtitleVars, muxVars, split_call, processor,
                   storylines, audio_files, ensure_result, enhance_call,
                   enhance_result>>

\* the scene numbers whose audio_path.exists() is false
MissingAudioFiles(files) ==
    {storylines[i] : i \in DOMAIN storylines} \ files

\* process_single_shot, step 1: if self.generate_audio, the call
\* self._ensure_audio_files_exist(storylines, shot_name) from its first line
\* to its end.  Reading self.tts when __init__ never assigned it raises
\* AttributeError, outside the try block.  generate_audio_files writes the
\* file of each missing scene unless synthesize_text raises for it (the
\* exception is printed and the loop goes on); made is what it wrote.  An
\* exception of generate_audio_files itself (making the folder) is caught
\* and the method returns False.
EnsureAudioFilesExist ==
    /\ processor.constructed
    /\ processor.generate_audio
    /\ ~ensure_result.returned
    /\ IF MissingAudioFiles(audio_files) = {}
       THEN /\ ensure_result' = [returned |-> TRUE, raised |-> FALSE,
                                 value |-> TRUE]
            /\ UNCHANGED audio_files
       ELSE IF ~processor.has_tts
       THEN /\ ensure_result' = [returned |-> TRUE, raised |-> TRUE,
                                 value |-> FALSE]
            /\ UNCHANGED audio_files
       ELSE \/ \E made \in SUBSET MissingAudioFiles(audio_files) :
                 /\ audio_files' = audio_files \cup made
                 /\ ensure_result' =
                       [returned |-> TRUE, raised |-> FALSE,
                        value |-> MissingAudioFiles(audio_files') = {}]
            \/ /\ ensure_result' = [returned |-> TRUE, raised |-> FALSE,
                                     value |-> FALSE]
               /\ UNCHANGED audio_files
    /\ UNCHANGED <<pipelineVars, image_cache, threadVars, fontVars,
                   effectVars, subtitleVars, muxVars, split_call, split_result,
                   processor, storylines, enhance_call, enhance_result>>

\* prompt_enhancer.enhance_flux_prompts_batch(visual_descriptions) runs to
\* its end
EnhanceFluxPromptsBatch ==
    /\ enhance_call.called
    /\ ~enhance_result.returned
    /\ enhance_result' =
          enhance_flux_prompts_batch(enhance_call.visual_descriptions,
                                     enhance_call.answer)
    /\ UNCHANGED <<pipelineVars, image_cache, threadVars, fontVars,
                   effectVars, subtitleVars, muxVars, split_call, split_result,
                   processor, storylines, audio_files, ensure_result,
                   enhance_call>>

NextProcessor ==
    \/ SplitIntoChunks
    \/ EnsureAudioFilesExist
    \/ EnhanceFluxPromptsBatch

SpecProcessor == InitProcessor /\ [][NextProcessor]_vars

(* ------------- add_audio_to_videos.py: add_audio_and_music ------------ *)
\* A voice or music file: missing, or present with its length in seconds;
\* AudioFileClip raises for a present file it cannot read.
ClipFiles ==
    {[exists |-> FALSE, readable |-> FALSE, duration |-> 0]}
    \cup [exists : {TRUE}, readable : BOOLEAN, duration : 1..MaxClip]

MuxCalls ==
    [called : {TRUE}, video_clip : 1..MaxClip, voice_audio_path : ClipFiles,
     bg_music_path : ClipFiles]

NoAudio == [present |-> FALSE]

\* what add_audio_and_music hands back: the clip's duration and its audio
Returned(duration, audio) ==
    [returned |-> TRUE, raised |-> FALSE, duration |-> duration,
     audio |-> audio]

\* the branch without a voice file: the music is cut when longer than the
\* video and attached as it is otherwise
music_only(video_clip, bg_music_path) ==
    IF ~bg_music_path.exists THEN Returned(video_clip, NoAudio)
    ELSE IF ~bg_music_path.readable
    THEN [returned |-> TRUE, raised |-> TRUE]
    ELSE LET bg_audio == IF bg_music_path.duration > video_clip
                         THEN Subclipped(bg_music_path.duration, video_clip).duration
                         ELSE bg_music_path.duration
         IN  Returned(video_clip,
                      [present |-> TRUE, voice |-> 0, background |-> bg_audio])

\* the try block: the video is cut to a shorter voice, the voice to a
\* shorter video; the music is cut when longer than the video and looped
\* and cut when shorter.  Any exception ends in the handler, which returns
\* video_clip as it then is, without audio.
voice_and_music(video_clip, voice_audio_path, bg_music_path) ==
    IF ~voice_audio_path.readable THEN Returned(video_clip, NoAudio)
    ELSE LET cut_clip == IF voice_audio_path.duration < video_clip
                         THEN voice_audio_path.duration ELSE video_clip
             voice == IF voice_audio_path.duration > video_clip
                      THEN Subclipped(voice_audio_path.duration, video_clip).duration
                      ELSE voice_audio_path.duration
             bg_audio ==
                 IF bg_music_path.duration > cut_clip
                 THEN Subclipped(bg_music_path.duration, cut_clip).duration
                 ELSE IF bg_music_path.duration < cut_clip
                 THEN Subclipped(LoopsNeeded(cut_clip, bg_music_path.duration)
                                     * bg_music_path.duration, cut_clip).duration
                 ELSE bg_music_path.duration
         IN  IF ~bg_music_path.exists
             THEN Returned(cut_clip, [present |-> TRUE, voice |-> voice,
                                      background |-> 0])
             ELSE IF ~bg_music_path.readable THEN Returned(cut_clip, NoAudio)
             ELSE Returned(cut_clip, [present |-> TRUE, voice |-> voice,
                                      background |-> bg_audio])

add_audio_and_music(video_clip, voice_audio_path, bg_music_path) ==
    IF ~voice_audio_path.exists THEN music_only(video_clip, bg_music_path)
    ELSE voice_and_music(video_clip, voice_audio_path, bg_music_path)

InitMux ==
    /\ captions = <<>>
    /\ fps = 1
    /\ cpu_count = 1
    /\ PipelineAtLoad
    /\ image_cache = <<>>
    /\ ThreadsNotFollowed
    /\ ProcessorsNotFollowed
    /\ FontsNotFollowed
    /\ EffectsNotFollowed
    /\ SubtitlesNotFollowed
    /\ mux_call \in MuxCalls
    /\ mux_result = NoResult

\* add_audio_and_music(video_clip, voice_audio_path, bg_music_path) runs to
\* its end
AddAudioAndMusic ==
    /\ mux_call.called
    /\ ~mux_result.returned
    /\ mux_result' = add_audio_and_music(mux_call.video_clip,
                                         mux_call.voice_audio_path,
                                         mux_call.bg_music_path)
    /\ UNCHANGED <<pipelineVars, image_cache, threadVars, fontVars,
                   effectVars, subtitleVars, processorVars, mux_call>>

NextMux == AddAudioAndMusic

SpecMux == InitMux /\ [][NextMux]_vars

(* ============================== claims ================================ *)
TimelineKnown == pc \notin {"load"} /\ ~(pc = "returned" /\ captions = <<>>)

RenderOver == pc \in {"audio", "voices", "bgmusic", "compose", "done"}

SomeBatchRaised == \E b \in DOMAIN futures : futures[b] = "raised"

EveryBatchOk == \A b \in DOMAIN futures : futures[b] = "ok"

\* C1: whenever a render batch raised, no video file is written (the run
\* ends as a fatal rendering error instead).
C1_FailedBatchWritesNoVideo ==
    SomeBatchRaised => ~output.written

\* C4: the encoder hand-off starts only after every render future, every
\* voice load future and the background music future has resolved, and at
\* that moment every frame index in [0, F) is in the frame buffer.
C4_HandoffAfterAllResolved ==
    pc \in {"compose", "done"} =>
        /\ \A b \in DOMAIN futures : futures[b] # "pending" /\ b \in collected
        /\ \A k \in DOMAIN voice_futures :
               voice_futures[k].state = "done" /\ k \in voice_collected
        /\ \A j \in 0..(total_frames - 1) : j \in DOMAIN all_rendered_frames

\* C5: the total frame count is ceil(total_duration * fps) whenever the total
\* duration is positive.
C5_TotalFramesIsCeil ==
    (TimelineKnown /\ total_duration > 0) =>
        total_frames = CeilDiv(total_duration * fps, TicksPerSec)

\* C6: when every render batch succeeded, make_frame returns a rendered frame
\* for every timestamp t with 0 <= t < total_duration.  The timestamps are
\* taken on the grid of 1 / (TicksPerSec * fps) seconds.
C6_MakeFrameNeverFallsBack ==
    (RenderOver /\ EveryBatchOk) =>
        \A u \in 0..(total_duration * fps - 1) :
            make_frame(u, TicksPerSec * fps) # BlackFrame

\* the scene's start time: the minimum start_time of its segments
SceneStart(sc) ==
    SetMin({all_segments[i].start_time :
               i \in {k \in 1..Len(all_segments) : all_segments[k].scene = sc}})

\* C7: every loaded voice clip is positioned at the start time of its scene,
\* the minimum start_time of the segments of that scene.
C7_ClipAtSceneStart ==
    \A i \in 1..Len(voice_clips) :
        voice_clips[i].start = SceneStart(voice_clips[i].scene)

\* C8: when background music is present its track lasts exactly
\* total_duration and carries sound over all of it: music shorter than
\* total_duration is repeated ceil(total_duration / music) times (the least
\* number of repetitions that covers total_duration) and cut, longer or equal
\* music is cut directly.
C8_BackgroundLastsTotalDuration ==
    (pc \in {"compose", "done"} /\ bg_music.present) =>
        /\ bg_music.duration = total_duration
        /\ bg_music.audible = total_duration
        /\ IF bg_music.music < total_duration
           THEN /\ bg_music.loops * bg_music.music >= total_duration
                /\ (bg_music.loops - 1) * bg_music.music < total_duration
           ELSE bg_music.loops = 1

C8_Witness ==
    /\ pc = "compose"
    /\ bg_music.present
    /\ bg_music.music < total_duration
    /\ bg_music.loops >= 2
    /\ bg_music.loops * bg_music.music > total_duration

\* C9: when the total duration computes to zero or less, the run aborts and
\* no video file is written.
C9_ZeroDurationWritesNoVideo ==
    (TimelineKnown /\ total_duration <= 0) => ~output.written
\* C2: the frame batches are contiguous index ranges, pairwise disjoint, and
\* their union is {0, ..., F-1}: every frame index is in exactly one batch.
C2_BatchesPartitionFrames ==
    pc = "render" =>
        /\ \A b \in DOMAIN frame_batches :
               /\ Len(frame_batches[b]) >= 1
               /\ \A k \in 1..(Len(frame_batches[b]) - 1) :
                      frame_batches[b][k + 1] = frame_batches[b][k] + 1
        /\ \A j \in 0..(total_frames - 1) :
               Cardinality({b \in DOMAIN frame_batches :
                               j \in BatchFrames(frame_batches[b])}) = 1
        /\ UNION {BatchFrames(frame_batches[b]) : b \in DOMAIN frame_batches}
               = 0..(total_frames - 1)

C2_Witness ==
    /\ pc = "render"
    /\ Len(frame_batches) >= 3
    /\ Len(frame_batches[1]) > MinBatchSize
    /\ Len(frame_batches[Len(frame_batches)]) < Len(frame_batches[1])

\* C3: threads that call get_cached_image for the same key while it is not
\* cached obtain pixel-identical images, and the file is decoded at most once.
C3_SameImageOneDecode ==
    /\ \A k \in DOMAIN decodes : decodes[k] <= 1
    /\ \A t1, t2 \in DOMAIN tpc :
           (tpc[t1] = "holding" /\ tpc[t2] = "holding" /\ tkey[t1] = tkey[t2])
               => heap[timg[t1]] = heap[timg[t2]]

\* C10: the image get_cached_image returns is a private copy: whatever the
\* callers do to the images they received, the image stored in image_cache
\* keeps the pixels of its file and every other caller's image keeps its own.
C10_ReturnedImageIsPrivate ==
    /\ \A k \in DOMAIN image_cache :
           image_cache[k] \in DOMAIN heap => heap[image_cache[k]] = FilePixels(k)
    /\ \A t \in DOMAIN tpc :
           /\ tpc[t] = "holding" => heap[timg[t]] = FilePixels(tkey[t])
           /\ tpc[t] = "edited" => heap[timg[t]] = EditedPixels(t)

C10_Witness ==
    \E t1, t2 \in DOMAIN tpc :
        /\ t1 # t2
        /\ tpc[t1] = "edited"
        /\ tpc[t2] = "holding"
        /\ tkey[t1] = tkey[t2]
        /\ tkey[t1] \in DOMAIN image_cache
        /\ readable[tkey[t1]]

\* C11: when the image file of a scene cannot be decoded, get_cached_image
\* hands its caller a black buffer of the requested height and width, every
\* failed decode is reported by one warning, and the call ends like any other
\* (the caller holds an image), so the frame is rendered.
C11_UndecodableImageIsBlack ==
    /\ \A t \in DOMAIN tpc :
           (tpc[t] = "holding" /\ ~readable[tkey[t]]) =>
               /\ heap[timg[t]] = BlackPixels
               /\ heap[timg[t]].shape = <<Height, Width>>
               /\ warnings[tkey[t]] >= 1
    /\ \A k \in DOMAIN decodes :
           ~readable[k] =>
               warnings[k] = decodes[k]
                             + (IF k \in DOMAIN image_cache
                                   /\ image_cache[k] = Decoded(k, 0)
                                THEN 1 ELSE 0)
    /\ \A k \in DOMAIN decodes : readable[k] => warnings[k] = 0

C11_Witness ==
    \E t \in DOMAIN tpc :
        /\ tpc[t] = "holding"
        /\ ~readable[tkey[t]]
        /\ decodes[tkey[t]] >= 1
        /\ heap[timg[t]] = BlackPixels

\* C12: when a font fails to load, get_cached_font returns the default font,
\* a warning has been printed for it, nothing is raised, and every later call
\* with the same (path, size) returns that same cached object.
C12_FontFallbackWarns ==
    (font_returned.called /\ font_returned.key[1] \notin font_files) =>
        /\ font_returned.font = DefaultFont(font_returned.key, 1)
        /\ font_returned.font = font_cache[font_returned.key]
        /\ font_warnings[font_returned.key] >= 1

\* C13: for every effect type (one that is no KenBurnsEffect included), every
\* progress (values below 0 and above 1 included, which are clamped) and
\* every positive width and height, apply_ken_burns_effect returns, without
\* raising, a buffer of exactly height rows and width columns.
C13_EffectReturnsTargetSize ==
    effect_result.returned =>
        /\ ~effect_result.raised
        /\ effect_result.shape = <<effect_call.height, effect_call.width>>

C13_Witness ==
    /\ effect_result.returned
    /\ effect_call.effect_type \notin KenBurnsEffect
    /\ effect_call.pnum > ProgressSteps
    /\ effect_result.buf_width > effect_call.width
    /\ effect_result.shape = <<effect_call.height, effect_call.width>>

C15_AdjacentScenesDiffer ==
    (effect_call.called /\ effect_call.scene >= 1) =>
        /\ effect_call.effect_type =
               EFFECT_SEQUENCE[((effect_call.scene - 1) % Len(EFFECT_SEQUENCE)) + 1]
        /\ effect_call.effect_type # EffectType(effect_call.scene + 1)

\* scene 15 has the last effect of the sequence, scene 16 the first
C15_Witness ==
    /\ effect_call.called
    /\ effect_result.returned
    /\ effect_call.scene = Len(EFFECT_SEQUENCE)
    /\ effect_call.effect_type = EFFECT_SEQUENCE[Len(EFFECT_SEQUENCE)]
    /\ EffectType(effect_call.scene + 1) = EFFECT_SEQUENCE[1]

\* the entries of timing_info whose closed interval contains current_time
SegmentsAt ==
    {i \in 1..Len(timing_info) :
        /\ timing_info[i].start_time <= current_time
        /\ current_time <= timing_info[i].end_time}

\* C16: get_subtitle_at_time(t) returns the text of the first entry, in the
\* order of timing_info, with start_time <= t <= end_time (so the text of the
\* only such entry when there is exactly one), and the empty string when no
\* entry contains t.
C16_SubtitleAtTime ==
    subtitle_text.returned =>
        IF SegmentsAt = {}
        THEN subtitle_text.text = ""
        ELSE /\ subtitle_text.text = timing_info[SetMin(SegmentsAt)].text
             /\ Cardinality(SegmentsAt) = 1 =>
                    \A i \in SegmentsAt : subtitle_text.text = timing_info[i].text

\* two entries with different texts contain t, t being the end of the first
C16_Witness ==
    /\ subtitle_text.returned
    /\ Len(timing_info) = 2
    /\ SegmentsAt = {1, 2}
    /\ timing_info[1].end_time = current_time
    /\ timing_info[1].start_time < current_time
    /\ timing_info[1].text # timing_info[2].text
    /\ subtitle_text.text = timing_info[1].text

\* the batches that hold frame index j and whose frames were stored
StoredOwners(j) ==
    {b \in collected :
        futures[b] = "ok" /\ j \in BatchFrames(frame_batches[b])}

\* C17: each frame index in [0, F) is assigned in all_rendered_frames exactly
\* once, by the one batch that holds it, the stored frame stays the frame that
\* batch rendered, and at the hand-off to the encoder every index of [0, F)
\* has been assigned, whatever the order in which the batches complete.
C17_FrameWrittenOnce ==
    /\ \A j \in DOMAIN frame_writes :
           /\ frame_writes[j] = 1
           /\ Cardinality(StoredOwners(j)) = 1
           /\ all_rendered_frames[j] = RenderFrame(all_segments, j, fps)
    /\ pc \in {"compose", "done"} =>
           \A j \in 0..(total_frames - 1) :
               j \in DOMAIN frame_writes /\ frame_writes[j] = 1

LoadableScenes ==
    {audio_tasks[k].scene :
        k \in {n \in DOMAIN audio_tasks :
                  captions[audio_tasks[n].scene].audio.exists}}

\* C19: a voice file that is missing or fails to load is skipped and never
\* ends load_audio_clips_concurrent: once it has returned, voice_clips holds
\* one clip for each scene whose file exists and loads and no other clip, in
\* whatever order the workers completed, and no error is recorded.
C19_MissingVoiceSkipped ==
    /\ pc = "voices" => error = "none"
    /\ pc \in {"bgmusic", "compose", "done"} =>
           /\ {voice_clips[i].scene : i \in DOMAIN voice_clips} = LoadableScenes
           /\ Len(voice_clips) = Cardinality(LoadableScenes)
           /\ error = "none"

\* of two scenes the voice file of the first is missing: the function has
\* returned the clip of the second alone
C19_Witness ==
    /\ pc = "bgmusic"
    /\ Len(audio_tasks) = 2
    /\ LoadableScenes = {audio_tasks[2].scene}
    /\ Len(voice_clips) = 1
    /\ voice_clips[1].scene = audio_tasks[2].scene

\* C20: when no voice clip was loaded and there is no background music,
\* create_complete_video still writes the video, without an audio track, and
\* ends without an error.
C20_SilentVideoWritten ==
    (pc = "done" /\ voice_clips = <<>> /\ ~bg_music.present) =>
        /\ output.written
        /\ ~output.audio
        /\ error = "none"

C20_Witness ==
    /\ pc = "done"
    /\ voice_clips = <<>>
    /\ ~bg_music.present
    /\ audio_tasks # <<>>
    /\ output.written
    /\ ~output.audio

\* C21: apply_pan_left and apply_pan_right, at the fixed zoom 1.2, move the
\* horizontal crop offset by int(width * 0.3) in total as progress goes from
\* 0 to 1: pan_left from its offset at progress 0 down by that distance,
\* pan_right up by it.
C21_PanTravelsThirtyPercent ==
    (/\ effect_result.returned
     /\ effect_call.effect_type \in {"pan_left", "pan_right"}
     /\ ClampProgress(effect_call.pnum) = ProgressSteps) =>
        \E sw, sh, ss \in BOOLEAN :
            LET leftwards == effect_call.effect_type = "pan_left"
                first == apply_pan_x(leftwards, easing_function(0),
                                     effect_call.width, effect_call.height,
                                     sw, sh, ss)
                pan_distance == IntOfFloat(effect_call.width * 3, 10, ss)
            IN  IF leftwards
                THEN effect_result.start_x = first.start_x - pan_distance
                ELSE effect_result.start_x = first.start_x + pan_distance

\* frame j has its timestamp inside some segment
FrameHit(j) ==
    \E i \in 1..Len(all_segments) : SegmentContainsFrame(all_segments[i], j, fps)

\* the scene's end time: the maximum end_time of its segments
SceneEnd(sc) ==
    SetMax({all_segments[i].end_time :
               i \in {k \in 1..Len(all_segments) : all_segments[k].scene = sc}})

\* the frames of the video whose timestamp lies in a segment of scene sc
SceneFrames(sc) ==
    {j \in 0..(total_frames - 1) :
        FrameHit(j) /\ FrameScene(all_segments, j, fps) = sc}

\* the scene numbers of the timeline
TimelineScenes == {all_segments[i].scene : i \in 1..Len(all_segments)}

\* the stored frames of scene sc whose timestamp lies in a segment
StoredSceneFrames(sc) ==
    {j \in DOMAIN all_rendered_frames :
        all_rendered_frames[j].scene = sc /\ FrameHit(j)}

\* the progress of the stored frame j is (t - scene_start) / (scene_end -
\* scene_start) for a scene from start to end, and lies in [0, 1]
ProgressAsStated(j, start, end) ==
    LET f == all_rendered_frames[j]
    IN  /\ end > start
        /\ f.progress.num * ((end - start) * fps)
               = (j * TicksPerSec - start * fps) * f.progress.den
        /\ 0 <= f.progress.num /\ f.progress.num <= f.progress.den

\* over the stored frames of scene sc the progress is non-decreasing
ProgressNonDecreasing(sc) ==
    \A j, k \in StoredSceneFrames(sc) :
        k < j =>
            all_rendered_frames[k].progress.num
                    * all_rendered_frames[j].progress.den
                <= all_rendered_frames[j].progress.num
                    * all_rendered_frames[k].progress.den

\* Frames are being stored, or the last batch has just been collected;
\* all_rendered_frames is not assigned again afterwards.
FramesStored == pc \in {"render", "audio"}

\* The last batch has just been collected: all_rendered_frames holds every
\* frame that is ever stored, and each earlier value of it is a part of such
\* a final one.
FramesFinal == pc = "audio"

\* C22 as stated: for every frame whose timestamp lies in a segment, the
\* progress passed to the effect is (t - scene_start) / (scene_end -
\* scene_start) over the scene's segments, lies in [0, 1], is non-decreasing
\* over the frames of one scene, and is 0 at the scene's first frame.
C22_ProgressZeroAtFirstFrame ==
    \A sc \in TimelineScenes :
        /\ FramesStored =>
               \A j \in StoredSceneFrames(sc) :
                   ProgressAsStated(j, SceneStart(sc), SceneEnd(sc))
        /\ FramesFinal =>
               /\ ProgressNonDecreasing(sc)
               /\ \A j \in StoredSceneFrames(sc) :
                      (\A k \in SceneFrames(sc) : j <= k) =>
                          all_rendered_frames[j].progress.num = 0

\* C22, amended: the same, except that the progress is 0 exactly at a frame
\* whose timestamp is the scene's start: at the scene's first frame it is 0
\* only when the scene starts at a frame timestamp, and in general it is
\* what one frame period at most contributes, below
\* 1 / (fps * scene duration).
C22_SceneProgress ==
    \A sc \in TimelineScenes :
        /\ FramesStored =>
               LET start == SceneStart(sc)
                   end == SceneEnd(sc)
               IN  \A j \in StoredSceneFrames(sc) :
                       /\ ProgressAsStated(j, start, end)
                       /\ (all_rendered_frames[j].progress.num = 0)
                              <=> (j * TicksPerSec = start * fps)
        /\ FramesFinal =>
               /\ ProgressNonDecreasing(sc)
               /\ \A j \in StoredSceneFrames(sc) :
                      (\A k \in SceneFrames(sc) : j <= k) =>
                          LET late == j * TicksPerSec - SceneStart(sc) * fps
                          IN  /\ 0 <= late /\ late < TicksPerSec
                              /\ all_rendered_frames[j].progress.num
                                     * ((SceneEnd(sc) - SceneStart(sc)) * fps)
                                 < TicksPerSec
                                     * all_rendered_frames[j].progress.den

\* a scene of two segments whose first frame comes after the scene's start,
\* rendered with a frame in its second segment
C22_Witness ==
    \E j, k \in DOMAIN all_rendered_frames :
        /\ FramesFinal
        /\ FrameHit(j) /\ FrameHit(k) /\ j < k
        /\ all_rendered_frames[j].scene = all_rendered_frames[k].scene
        /\ \A n \in SceneFrames(all_rendered_frames[j].scene) : j <= n
        /\ all_rendered_frames[j].progress.num > 0
        /\ \E i \in 1..Len(all_segments) :
               /\ all_segments[i].scene = all_rendered_frames[k].scene
               /\ all_segments[i].chunk = 2
               /\ SegmentContainsFrame(all_segments[i], k, fps)

\* C23: a frame whose timestamp t no segment contains is rendered all the
\* same, with the image of scene 1 and the progress min(1, t / 3.0) of a
\* window of 3.0 seconds that starts at time 0.
C23_NoSegmentFallback ==
    /\ \A j \in DOMAIN all_rendered_frames :
           ~FrameHit(j) =>
               LET f == all_rendered_frames[j]
               IN  /\ f.kind = "rendered"
                   /\ f.scene = 1
                   /\ f.progress.num * (3 * fps) = Min(j, 3 * fps) * f.progress.den
                   /\ 1 \in DOMAIN image_cache
    /\ \A b \in DOMAIN futures :
           (futures[b] = "ok" /\ b \in collected) =>
               BatchFrames(frame_batches[b]) \subseteq DOMAIN all_rendered_frames

\* a stored frame outside every segment, part of the way through the
\* default window
C23_Witness ==
    \E j \in DOMAIN all_rendered_frames :
        /\ ~FrameHit(j)
        /\ 0 < j /\ j < 3 * fps
        /\ all_rendered_frames[j].progress.num > 0
        /\ all_rendered_frames[j].progress.num < all_rendered_frames[j].progress.den

\* C24: the eased progress is 4t^3 for t < 0.5 and 1 - (-2t + 2)^3 / 2 for
\* t >= 0.5; on [0, 1] it is non-decreasing, 0 at 0 and 1 at 1, and at
\* t = 0.5 both branches give 0.5.
C24_EasingCubicInOut ==
    effect_result.returned =>
        LET S == ProgressSteps
            p == effect_result.progress
            Lower(q) == 8 * q * q * q
            Upper(q) == 2 * S * S * S - 8 * (S - q) * (S - q) * (S - q)
            Stated(q) == IF 2 * q < S THEN Lower(q) ELSE Upper(q)
        IN  /\ p \in 0..S
            /\ effect_result.eased_progress = Stated(p)
            /\ \A q \in 0..p : Stated(q) <= effect_result.eased_progress
            /\ p = 0 => effect_result.eased_progress = 0
            /\ p = S => effect_result.eased_progress = 2 * S * S * S
            /\ 2 * p = S => /\ Lower(p) = Upper(p)
                            /\ 2 * effect_result.eased_progress = 2 * S * S * S

\* a call at progress 0.5 exactly
C24_Witness ==
    /\ effect_result.returned
    /\ 2 * effect_call.pnum = ProgressSteps
    /\ 2 * effect_result.eased_progress = EasedDen

\* C25: split_into_chunks returns chunks none of which is longer than
\* max_chars_per_chunk, for every text, a text with a single word longer
\* than the limit included.
C25_ChunksWithinLimit ==
    split_result.returned =>
        \A k \in 1..Len(split_result.chunks) :
            ChunkLen(split_result.chunks[k]) <= split_call.max_chars_per_chunk

\* C26: _ensure_audio_files_exist always returns a boolean, which is true
\* exactly when every expected audio file exists when it returns; with
\* files missing and no synthesizer initialised it returns False, it does
\* not raise.
C26_EnsureAudioReturnsBoolean ==
    ensure_result.returned =>
        /\ ~ensure_result.raised
        /\ ensure_result.value = (MissingAudioFiles(audio_files) = {})

\* the LLM call failed, or its answer is no JSON or has the wrong shape
LlmFailed ==
    \/ enhance_call.answer.kind # "list"
    \/ Len(enhance_call.answer.entries) # enhance_call.visual_descriptions

\* C27: when the LLM call fails or its answer is no valid JSON or has the
\* wrong shape, enhance_flux_prompts_batch does not raise: it returns one
\* entry per input description, each with a non-empty fallback flux_prompt.
C27_FallbackPromptsReturned ==
    (enhance_result.returned /\ LlmFailed) =>
        /\ ~enhance_result.raised
        /\ Len(enhance_result.prompts) = enhance_call.visual_descriptions

\* the scenes that have a segment with the given text
ScenesOfText(text) ==
    {all_segments[i].scene :
        i \in {k \in 1..Len(all_segments) :
                  ChunkText(all_segments[k].scene, all_segments[k].chunk) = text}}

\* C28: the subtitle text drawn on a rendered frame belongs to a segment of
\* the scene whose image the frame shows, also when the frame's timestamp is
\* exactly the boundary between two scenes.
C28_SubtitleOfImageScene ==
    \A j \in DOMAIN all_rendered_frames :
        all_rendered_frames[j].subtitle # "" =>
            all_rendered_frames[j].scene
                \in ScenesOfText(all_rendered_frames[j].subtitle)

\* C29: once preload_images has returned, the image of every scene number of
\* the timeline is in image_cache, and no get_cached_image call of the
\* rendering misses the cache (no image is decoded by a render worker), for
\* every timeline, one whose scene numbers are not 1..N included.
C29_PreloadCoversTimeline ==
    pc \in {"batches", "render", "audio", "voices", "bgmusic", "compose",
            "done"} =>
        /\ \A i \in 1..Len(all_segments) :
               all_segments[i].scene \in DOMAIN image_cache
        /\ \A k \in DOMAIN image_cache : image_cache[k] = Decoded(k, 0)

\* C30: in every branch of add_audio_and_music that attaches background
\* music, the background track lasts exactly as long as the returned video
\* clip (looped when shorter, cut when longer), whether the voice file
\* exists or not.
C30_MusicAsLongAsVideo ==
    (/\ mux_result.returned
     /\ ~mux_result.raised
     /\ mux_result.audio.present
     /\ mux_result.audio.background > 0) =>
        mux_result.audio.background = mux_result.duration

====
